---- MODULE Spec2Model ----
(***************************************************************************)
(* Request handlers of the members-only message board                      *)
(* (src/controllers/index.js) over the user store, the message store and   *)
(* the per-caller session identity.                                        *)
(*                                                                         *)
(* Strings are sequences of one-character strings, so that the sanitizers  *)
(* (trim, escape) and the validators (isAlpha, isAlphanumeric, isLength)   *)
(* are computed character by character as validator.js computes them.      *)
(* Store calls succeed: the err branches of the callbacks only forward a   *)
(* failure of the store itself.                                            *)
(***************************************************************************)
EXTENDS Integers, Sequences, FiniteSets, TLC

\* ------------------------------------------------------------------ bounds
MaxUsers == 2
MaxMessages == 2

\* Signup requests that may be in flight together, and callers holding a session.
Slots == {"r1", "r2"}
Clients == {"c1", "c2"}

\* -------------------------------------------------------- program constants
MinPasswordLen == 6
MinTextLen == 1
NotFound == 404

MEMBER_SECRET == <<"o", "p", "e", "n">>

\* ------------------------------------------------------------- characters
WhiteSpace == {" ", "\t", "\n"}
Letters ==
  {"a", "b", "c", "d", "e", "f", "g", "h", "i", "j", "k", "l", "m",
   "n", "o", "p", "q", "r", "s", "t", "u", "v", "w", "x", "y", "z",
   "A", "B", "C", "D", "E", "F", "G", "H", "I", "J", "K", "L", "M",
   "N", "O", "P", "Q", "R", "S", "T", "U", "V", "W", "X", "Y", "Z"}
Digits == {"0", "1", "2", "3", "4", "5", "6", "7", "8", "9"}

\* ------------------------------------------------------------- sanitizers
RECURSIVE LTrim(_)
LTrim(s) ==
  IF s # <<>> /\ Head(s) \in WhiteSpace THEN LTrim(Tail(s)) ELSE s

RECURSIVE RTrim(_)
RTrim(s) ==
  IF s # <<>> /\ s[Len(s)] \in WhiteSpace
    THEN RTrim(SubSeq(s, 1, Len(s) - 1))
    ELSE s

Trim(s) == RTrim(LTrim(s))

\* escape() also replaces the grave accent, a character no string here holds.
EscapeChar(c) ==
  CASE c = "<" -> <<"&", "l", "t", ";">>
    [] c = ">" -> <<"&", "g", "t", ";">>
    [] c = "&" -> <<"&", "a", "m", "p", ";">>
    [] c = "\"" -> <<"&", "q", "u", "o", "t", ";">>
    [] c = "'" -> <<"&", "#", "x", "2", "7", ";">>
    [] c = "/" -> <<"&", "#", "x", "2", "F", ";">>
    [] c = "\\" -> <<"&", "#", "x", "5", "C", ";">>
    [] OTHER -> <<c>>

RECURSIVE Escape(_)
Escape(s) ==
  IF s = <<>> THEN <<>> ELSE EscapeChar(Head(s)) \o Escape(Tail(s))

\* ------------------------------------------------------------- validators
IsAlpha(s) == Len(s) > 0 /\ \A i \in 1..Len(s) : s[i] \in Letters

IsAlphanumeric(s) ==
  Len(s) > 0 /\ \A i \in 1..Len(s) : s[i] \in Letters \cup Digits

IsLength(s, min) == Len(s) >= min

FieldError(param, msg) == [param |-> param, msg |-> msg]

\* ------------------------------------------------------------------ state
VARIABLES
  users,      \* the user collection: a set of user documents
  messages,   \* the message collection: a set of message documents
  nextMsgId,  \* the id the store gives the next message document
  session,    \* req.user of each caller: a user id, or NoUser
  signup,     \* per signup request in flight: where its handler is suspended
  resp        \* the handler invocation that finished last, with what it sent

vars == <<users, messages, nextMsgId, session, signup, resp>>

NoUser == 0

\* ------------------------------------------------------------- responses
Render(view, errors) ==
  [kind |-> "render", target |-> view, errors |-> errors, status |-> 0]

Redirect(path) ==
  [kind |-> "redirect", target |-> path, errors |-> <<>>, status |-> 0]

Forward(msg, status) ==
  [kind |-> "error", target |-> msg, errors |-> <<>>, status |-> status]

Response(handler, out) == [handler |-> handler, out |-> out]

\* --------------------------------------------------------- request inputs
Salts == {"s1", "s2"}
Secret6 == <<"s", "e", "c", "r", "e", "t">>
Secret5 == <<"s", "e", "c", "r", "e">>

Body(f, l, u, p, cp) ==
  [firstname |-> f, lastname |-> l, username |-> u, password |-> p,
   confirmpassword |-> cp]

Jo == <<"J", "o">>
Doe == <<"D", "o", "e">>

\* Submissions that pass validation: plain, padded with white space, another name.
ValidBodies ==
  {Body(Jo, Doe, <<"a">>, Secret6, Secret6),
   Body(<<" ", "J", "o">>, <<"D", "o", "e", "\t">>, <<" ", "a">>,
        <<" ">> \o Secret6, Secret6 \o <<" ">>),
   Body(Jo, Doe, <<"b", "2">>, Secret6, Secret6)}

\* Submissions that fail it: one per validator, a padded short password, all at once.
InvalidBodies ==
  {Body(<<"J", "o", "1", "n">>, Doe, <<"a">>, Secret6, Secret6),
   Body(Jo, <<"D", " ", "e">>, <<"a">>, Secret6, Secret6),
   Body(Jo, Doe, <<"b", "!">>, Secret6, Secret6),
   Body(Jo, Doe, <<"a">>, Secret5, Secret5),
   Body(Jo, Doe, <<"a">>, <<" ">> \o Secret5 \o <<" ">>, <<" ">> \o Secret5 \o <<" ">>),
   Body(Jo, Doe, <<"a">>, Secret6, <<"s", "e", "c", "r", "e", "x">>),
   Body(<<>>, <<"1">>, <<" ">>, <<>>, <<"x">>)}

SignupBodies == ValidBodies \cup InvalidBodies

\* The signups issued while the board is exercised.
BoardBodies ==
  {Body(Jo, Doe, <<"a">>, Secret6, Secret6),
   Body(Jo, Doe, <<"b", "2">>, Secret6, Secret6)}

LoginNames == {<<"a">>, <<"b", "2">>, <<"c">>}
LoginPasswords == {Secret6, <<"s", "e", "c", "r", "e", "x">>}
Titles == {<<"<">>, <<" ">>}
Texts == {<<"o">>, <<>>}
MessageBodies == [title : Titles, message : Texts]
SecretTries == {MEMBER_SECRET, <<" ", "o", "p", "e", "n">>, <<"o", "p", "e">>}
MessageIds == 1..(MaxMessages + 1)

\* ------------------------------------------------------- credential service
Hash(password, salt) == <<"$2a$", salt>> \o password

Compare(password, hash) ==
  Len(hash) >= 2 /\ hash[1] = "$2a$" /\ SubSeq(hash, 3, Len(hash)) = password

\* ------------------------------------------------------------ signup_post
SignupBody(raw) ==
  [firstname |-> Trim(raw.firstname),
   lastname |-> Trim(raw.lastname),
   username |-> Trim(raw.username),
   password |-> Trim(raw.password),
   confirmpassword |-> Trim(raw.confirmpassword)]

\* The chain without its confirmation validator.
SignupErrors_noconfirm(raw) ==
  LET b == SignupBody(raw)
      e(ok, param, msg) == IF ok THEN <<>> ELSE <<FieldError(param, msg)>>
  IN  e(IsAlpha(b.firstname), "firstname", "Invalid first name")
        \o e(IsAlpha(b.lastname), "lastname", "Invalid last name")
        \o e(IsAlphanumeric(b.username), "username", "Invalid username")
        \o e(IsLength(b.password, MinPasswordLen), "password", "Invalid password")

SignupErrors(raw) ==
  LET b == SignupBody(raw)
      e(ok, param, msg) == IF ok THEN <<>> ELSE <<FieldError(param, msg)>>
  IN  e(IsAlpha(b.firstname), "firstname", "Invalid first name")
        \o e(IsAlpha(b.lastname), "lastname", "Invalid last name")
        \o e(IsAlphanumeric(b.username), "username", "Invalid username")
        \o e(IsLength(b.password, MinPasswordLen), "password", "Invalid password")
        \o e(b.confirmpassword = b.password, "confirmpassword",
             "Password confirmation does not match password")

\* The document built with the password itself for its credential.
NewUser_plain(body, hash) ==
  [id |-> NoUser,
   first_name |-> body.firstname,
   last_name |-> body.lastname,
   username |-> body.username,
   password |-> body.password,
   membership_status |-> FALSE]

NewUser(body, hash) ==
  [id |-> NoUser,
   first_name |-> body.firstname,
   last_name |-> body.lastname,
   username |-> body.username,
   password |-> hash,
   membership_status |-> FALSE]

NoBody ==
  [firstname |-> <<>>, lastname |-> <<>>, username |-> <<>>,
   password |-> <<>>, confirmpassword |-> <<>>]

Idle == [pc |-> "idle", raw |-> NoBody, user |-> NewUser(NoBody, <<>>)]

\* A lookup that matches nothing.
found_user_none(username) == {}

found_user(username) == {u \in users : u.username = username}

UsernameInUse ==
  <<Render("signup_form", <<FieldError("username", "Username already in use.")>>)>>

InFlight == {s \in Slots : signup[s].pc # "idle"}

\* Validation, then the hash; the handler is suspended at the lookup.
signup_post(s, raw, salt) ==
  /\ signup[s].pc = "idle"
  /\ IF SignupErrors(raw) # <<>>
       THEN /\ resp' = Response("signup_post",
                                <<Render("signup_form", SignupErrors(raw))>>)
            /\ UNCHANGED signup
       ELSE /\ Cardinality(users) + Cardinality(InFlight) < MaxUsers
            /\ signup' = [signup EXCEPT ![s] =
                 [pc |-> "findOne", raw |-> raw,
                  user |-> NewUser(SignupBody(raw),
                                   Hash(SignupBody(raw).password, salt))]]
            /\ UNCHANGED resp
  /\ UNCHANGED <<users, messages, nextMsgId, session>>

\* User.findOne answers; the handler is suspended again at the save.
signup_findOne(s) ==
  /\ signup[s].pc = "findOne"
  /\ IF found_user(signup[s].user.username) # {}
       THEN /\ resp' = Response("signup_post", UsernameInUse)
            /\ signup' = [signup EXCEPT ![s] = Idle]
       ELSE /\ signup' = [signup EXCEPT ![s].pc = "save"]
            /\ UNCHANGED resp
  /\ UNCHANGED <<users, messages, nextMsgId, session>>

signup_save(s) ==
  /\ signup[s].pc = "save"
  /\ users' = users \cup
       {[signup[s].user EXCEPT !.id = Cardinality(users) + 1]}
  /\ resp' = Response("signup_post", <<Redirect("/login")>>)
  /\ signup' = [signup EXCEPT ![s] = Idle]
  /\ UNCHANGED <<messages, nextMsgId, session>>

\* ------------------------------------------------------- login_post, logout
\* The local strategy: the first user of that name, then the hash comparison.
Authenticate(username, password) ==
  LET named == {u \in users : u.username = username}
      first == CHOOSE u \in named : \A v \in named : u.id <= v.id
  IN  IF named # {} /\ Compare(password, first.password)
        THEN first.id
        ELSE NoUser

login_post(c, username, password) ==
  /\ IF Authenticate(username, password) # NoUser
       THEN /\ session' = [session EXCEPT ![c] = Authenticate(username, password)]
            /\ resp' = Response("login_post", <<Redirect("/")>>)
       ELSE /\ resp' = Response("login_post", <<Redirect("/login")>>)
            /\ UNCHANGED session
  /\ UNCHANGED <<users, messages, nextMsgId, signup>>

logout(c) ==
  /\ session' = [session EXCEPT ![c] = NoUser]
  /\ resp' = Response("logout", <<Redirect("/")>>)
  /\ UNCHANGED <<users, messages, nextMsgId, signup>>

\* ----------------------------------------------------- message_create_post
MessageBody(raw) ==
  [title |-> Escape(Trim(raw.title)), message |-> Escape(Trim(raw.message))]

\* The validators applied to the fields as submitted, the trim left out.
MessageErrors_untrimmed(raw) ==
  (IF IsLength(raw.title, MinTextLen)
     THEN <<>> ELSE <<FieldError("title", "Invalid title")>>)
  \o (IF IsLength(raw.message, MinTextLen)
        THEN <<>> ELSE <<FieldError("message", "Invalid message")>>)

MessageErrors(raw) ==
  (IF IsLength(Trim(raw.title), MinTextLen)
     THEN <<>> ELSE <<FieldError("title", "Invalid title")>>)
  \o (IF IsLength(Trim(raw.message), MinTextLen)
        THEN <<>> ELSE <<FieldError("message", "Invalid message")>>)

\* What the authentication check sends; the handler goes on either way.
LoginCheck(user) == IF user = NoUser THEN <<Redirect("/login")>> ELSE <<>>

\* The author read as req.user itself, which throws nothing.
Throws_never(user) == FALSE

\* req.user.id: reading a property of an absent req.user throws a TypeError,
\* which the router forwards to the error path.
Throws(user) == user = NoUser

NewMessage(id, user, body) ==
  [id |-> id, user |-> user, title |-> body.title, text |-> body.message]

message_create_post(c, raw) ==
  LET user == session[c] IN
  /\ IF MessageErrors(raw) # <<>>
       THEN /\ resp' = Response("message_create_post",
                 LoginCheck(user) \o <<Render("message_form", MessageErrors(raw))>>)
            /\ UNCHANGED <<messages, nextMsgId>>
       ELSE IF Throws(user)
         THEN /\ resp' = Response("message_create_post",
                   LoginCheck(user) \o <<Forward("TypeError", 0)>>)
              /\ UNCHANGED <<messages, nextMsgId>>
         ELSE /\ nextMsgId <= MaxMessages
              /\ messages' = messages \cup
                   {NewMessage(nextMsgId, user, MessageBody(raw))}
              /\ nextMsgId' = nextMsgId + 1
              /\ resp' = Response("message_create_post",
                   LoginCheck(user) \o <<Redirect("/")>>)
  /\ UNCHANGED <<users, session, signup>>

\* --------------------------------------------------------- membership_post
\* The chain without its custom validator.
MembershipErrors_none(password) == <<>>

MembershipErrors(password) ==
  IF Trim(password) # MEMBER_SECRET
    THEN <<FieldError("password", "Sorry, password is incorrect.")>>
    ELSE <<>>

membership_post(c, password) ==
  LET user == session[c]
      found == {u \in users : u.id = user}
  IN
  /\ IF MembershipErrors(password) # <<>>
       THEN /\ resp' = Response("membership_post",
                 <<Render("membership_form", MembershipErrors(password))>>)
            /\ UNCHANGED users
       ELSE IF found = {}
         THEN /\ resp' = Response("membership_post",
                   <<Forward("User not found", NotFound)>>)
              /\ UNCHANGED users
         ELSE /\ users' = {IF u.id = user
                             THEN [u EXCEPT !.membership_status = TRUE]
                             ELSE u : u \in users}
              /\ resp' = Response("membership_post", <<Redirect("/")>>)
  /\ UNCHANGED <<messages, nextMsgId, session, signup>>

\* ------------------------------------- message_delete_get, message_delete_post
message_delete_get(c, id) ==
  LET user == session[c] IN
  /\ resp' = Response("message_delete_get",
       IF user = NoUser
         THEN <<Redirect("/login")>>
         ELSE IF {m \in messages : m.id = id} = {}
           THEN <<Forward("Message not found", NotFound)>>
           ELSE <<Render("message_delete", <<>>)>>)
  /\ UNCHANGED <<users, messages, nextMsgId, session, signup>>

\* A removal whose filter matches every message.
findByIdAndRemove_all(id) == {}

findByIdAndRemove(id) == {m \in messages : m.id # id}

\* The handler without its session check.
message_delete_post_open(c, id) ==
  /\ messages' = findByIdAndRemove(id)
  /\ resp' = Response("message_delete_post", <<Redirect("/")>>)
  /\ UNCHANGED <<users, nextMsgId, session, signup>>

message_delete_post(c, id) ==
  LET user == session[c] IN
  /\ IF user = NoUser
       THEN /\ resp' = Response("message_delete_post", <<Redirect("/login")>>)
            /\ UNCHANGED messages
       ELSE /\ messages' = findByIdAndRemove(id)
            /\ resp' = Response("message_delete_post", <<Redirect("/")>>)
  /\ UNCHANGED <<users, nextMsgId, session, signup>>

\* ------------------------------------------------------ the rendering GETs
index(c) ==
  /\ resp' = Response("index", <<Render("index", <<>>)>>)
  /\ UNCHANGED <<users, messages, nextMsgId, session, signup>>

signup_get ==
  /\ resp' = Response("signup_get", <<Render("signup_form", <<>>)>>)
  /\ UNCHANGED <<users, messages, nextMsgId, session, signup>>

login_get(c) ==
  /\ resp' = Response("login_get", <<Render("login_form", <<>>)>>)
  /\ UNCHANGED <<users, messages, nextMsgId, session, signup>>

message_create_get(c) ==
  /\ resp' = Response("message_create_get",
                      <<Render("message_form", <<>>)>>)
  /\ UNCHANGED <<users, messages, nextMsgId, session, signup>>

membership_get(c) ==
  /\ resp' = Response("membership_get",
                      <<Render("membership_form", <<>>)>>)
  /\ UNCHANGED <<users, messages, nextMsgId, session, signup>>

\* ---------------------------------------------------------- specification
Init ==
  /\ users = {}
  /\ messages = {}
  /\ nextMsgId = 1
  /\ session = [c \in Clients |-> NoUser]
  /\ signup = [s \in Slots |-> Idle]
  /\ resp = Response("none", <<>>)

SignupRequests ==
  \/ \E s \in Slots, raw \in SignupBodies, salt \in Salts : signup_post(s, raw, salt)
  \/ \E s \in Slots : signup_findOne(s)
  \/ \E s \in Slots : signup_save(s)
  \/ signup_get

\* One signup at a time, of valid submissions: how the board gets its users.
BoardSignups ==
  \/ \E raw \in BoardBodies : signup_post("r1", raw, "s1")
  \/ signup_findOne("r1")
  \/ signup_save("r1")

Sessions ==
  \/ \E c \in Clients, u \in LoginNames, p \in LoginPasswords : login_post(c, u, p)
  \/ \E c \in Clients : logout(c)
  \/ \E c \in Clients : login_get(c)

MemberRequests ==
  \/ \E c \in Clients, p \in SecretTries : membership_post(c, p)
  \/ \E c \in Clients : membership_get(c)

MessageRequests ==
  \/ \E c \in Clients, raw \in MessageBodies : message_create_post(c, raw)
  \/ \E c \in Clients, id \in MessageIds : message_delete_get(c, id)
  \/ \E c \in Clients, id \in MessageIds : message_delete_post(c, id)
  \/ \E c \in Clients : message_create_get(c)
  \/ \E c \in Clients : index(c)

\* Concurrent signups against the user store, over every kind of submission.
SignupSpec == Init /\ [][SignupRequests]_vars

\* Signups one at a time, sessions and the membership unlock.
MemberSpec == Init /\ [][BoardSignups \/ Sessions \/ MemberRequests]_vars

\* Signups one at a time, sessions and the message board.
MessageSpec == Init /\ [][BoardSignups \/ Sessions \/ MessageRequests]_vars

\* The whole application, its users signing up one at a time.
Next ==
  BoardSignups \/ signup_get \/ Sessions \/ MemberRequests \/ MessageRequests

Spec == Init /\ [][Next]_vars

\* ------------------------------------------------------------------ claims
Usernames(store) == {u.username : u \in store}

\* C1: no two user records of the store have the same username, whatever the
\* interleaving of the signup handlers' store calls.
C1_UniqueUsernames ==
  \A u \in users : \A v \in users : u.username = v.username => u = v

\* C2: a signup that passed validation and whose username is in the store when
\* User.findOne answers leaves the store as it is, ends there, and re-renders the
\* signup form with the one error {username, 'Username already in use.'}.
C2_ConflictRendered ==
  [][\A s \in Slots :
       (/\ signup[s].pc = "findOne"
        /\ signup'[s] # signup[s]
        /\ Trim(signup[s].raw.username) \in Usernames(users))
       => (/\ users' = users
           /\ signup'[s].pc = "idle"
           /\ resp' = Response("signup_post",
                <<Render("signup_form",
                         <<FieldError("username", "Username already in use.")>>)>>))
  ]_vars

C2_Witness ==
  /\ users # {}
  /\ resp = Response("signup_post",
       <<Render("signup_form",
                <<FieldError("username", "Username already in use.")>>)>>)

\* The ways a submission fails field validation, on the values the validators see.
FailsValidation(raw) ==
  \/ ~IsAlpha(Trim(raw.firstname))
  \/ ~IsAlpha(Trim(raw.lastname))
  \/ ~IsAlphanumeric(Trim(raw.username))
  \/ Len(Trim(raw.password)) < MinPasswordLen
  \/ Trim(raw.confirmpassword) # Trim(raw.password)

\* C3: a signup that fails field validation writes nothing to the store, leaves no
\* continuation that could, and re-renders the signup form with field errors;
\* this holds of every such submission, so also of one repeated any number of times.
C3_InvalidSignupWritesNothing ==
  [][\A s \in Slots, raw \in SignupBodies, salt \in Salts :
       (signup_post(s, raw, salt) /\ FailsValidation(raw))
       => (/\ users' = users
           /\ signup' = signup
           /\ resp'.handler = "signup_post"
           /\ Len(resp'.out) = 1
           /\ resp'.out[1].kind = "render"
           /\ resp'.out[1].target = "signup_form"
           /\ resp'.out[1].errors # <<>>)
  ]_vars

C3_Witness ==
  /\ users # {}
  /\ resp = Response("signup_post",
       <<Render("signup_form",
                <<FieldError("confirmpassword",
                             "Password confirmation does not match password")>>)>>)

\* What the save of request s adds, given the username and the password the
\* claim takes for the submitted ones.
SavedAs(s, username, password) ==
  \E u \in users' :
    /\ u \notin users
    /\ users' = users \cup {u}
    /\ u.username = username
    /\ u.membership_status = FALSE
    /\ \E salt \in Salts : u.password = Hash(password, salt)
    /\ u.password # password
    /\ signup'[s].pc = "idle"
    /\ resp' = Response("signup_post", <<Redirect("/login")>>)

EmptyAfterTrim(s) == Trim(s) = <<>>

\* C5: a message-creation POST whose title or text is empty once trimmed adds no
\* message to the store, with or without a session identity.
C5_EmptyMessageNotStored ==
  [][\A c \in Clients, raw \in MessageBodies :
       (/\ message_create_post(c, raw)
        /\ (EmptyAfterTrim(raw.title) \/ EmptyAfterTrim(raw.message)))
       => (messages' = messages /\ nextMsgId' = nextMsgId)
  ]_vars

C5_Witness ==
  /\ \E c \in Clients : session[c] # NoUser
  /\ messages # {}
  /\ resp = Response("message_create_post",
       <<Render("message_form", <<FieldError("title", "Invalid title")>>)>>)

UserIds == {u.id : u \in users}

\* C6: a message enters the store only in a message-creation POST of a caller with
\* a session identity, with that identity for its author, which is then the id of
\* a user of the store; a message-creation POST without a session identity adds
\* nothing.
C6_AuthorIsSessionIdentity ==
  [][/\ \A m \in messages' \ messages :
          \E c \in Clients, raw \in MessageBodies :
            /\ message_create_post(c, raw)
            /\ session[c] # NoUser
            /\ m.user = session[c]
            /\ m.user \in UserIds
     /\ \A c \in Clients, raw \in MessageBodies :
          (message_create_post(c, raw) /\ session[c] = NoUser)
          => messages' = messages
  ]_vars

C6_Witness ==
  /\ resp = Response("message_create_post", <<Redirect("/")>>)
  /\ \E m \in messages, c \in Clients :
       m.id = 2 /\ m.user = 2 /\ session[c] = 2 /\ m.user \in UserIds

\* A membership POST of the caller whose session identity is user u; the users
\* kept as they are; a membership_status once true kept true.
Unlocks(c, p, u) == membership_post(c, p) /\ session[c] = u.id

StatusKept == \A u \in users : \E v \in users' : v = u

StatusMonotone ==
  \A u \in users :
    u.membership_status => \E v \in users' : v.id = u.id /\ v.membership_status

\* C7 as stated: a membership_status changes only in a membership POST of the
\* caller whose session identity is that user and whose submitted password equals
\* the secret, and it changes to true; a membership POST with another password
\* changes none; a status once true stays true.
C7_AsSubmitted ==
  [][/\ \A u \in users, v \in users' :
          (u.id = v.id /\ u.membership_status # v.membership_status)
          => (/\ v.membership_status = TRUE
              /\ \E c \in Clients, p \in SecretTries :
                   Unlocks(c, p, u) /\ p = MEMBER_SECRET)
     /\ \A c \in Clients, p \in SecretTries :
          (membership_post(c, p) /\ p # MEMBER_SECRET) => StatusKept
     /\ StatusMonotone
  ]_vars

\* C7 amended: the same, the password being compared with the secret after the
\* white space around it is trimmed.
C7_MembershipUnlock ==
  [][/\ \A u \in users, v \in users' :
          (u.id = v.id /\ u.membership_status # v.membership_status)
          => (/\ v.membership_status = TRUE
              /\ \E c \in Clients, p \in SecretTries :
                   Unlocks(c, p, u) /\ Trim(p) = MEMBER_SECRET)
     /\ \A c \in Clients, p \in SecretTries :
          (membership_post(c, p) /\ Trim(p) # MEMBER_SECRET) => StatusKept
     /\ StatusMonotone
  ]_vars

C7_Witness ==
  /\ resp = Response("membership_post", <<Redirect("/")>>)
  /\ \E u \in users, v \in users : u.membership_status /\ ~v.membership_status

Stored(id) == \E m \in messages : m.id = id

Without(id) == {m \in messages : m.id # id}

\* C8 as stated: every delete request (GET or POST) of a caller with a session
\* identity forwards a not-found error and leaves the store alone when the id names
\* no message, and removes that message alone and redirects home when it names one.
C8_EveryDeleteRequest ==
  [][\A c \in Clients, id \in MessageIds :
       (/\ message_delete_get(c, id) \/ message_delete_post(c, id)
        /\ session[c] # NoUser)
       => IF Stored(id)
            THEN messages' = Without(id) /\ resp'.out = <<Redirect("/")>>
            ELSE /\ messages' = messages
                 /\ resp'.out = <<Forward("Message not found", NotFound)>>
  ]_vars

\* C8 amended: with a session identity, the delete GET forwards a not-found error
\* when the id names no message and renders the confirmation when it names one,
\* the store unchanged either way; the delete POST removes the message the id
\* names, and that one alone, or nothing when it names none, and redirects home
\* either way.
C8_DeleteByHandler ==
  [][\A c \in Clients, id \in MessageIds :
       /\ (message_delete_get(c, id) /\ session[c] # NoUser)
          => /\ messages' = messages
             /\ resp'.out = IF Stored(id)
                              THEN <<Render("message_delete", <<>>)>>
                              ELSE <<Forward("Message not found", NotFound)>>
       /\ (message_delete_post(c, id) /\ session[c] # NoUser)
          => /\ messages' = Without(id)
             /\ Stored(id) => Cardinality(messages') = Cardinality(messages) - 1
             /\ ~Stored(id) => messages' = messages
             /\ resp'.out = <<Redirect("/")>>
  ]_vars

C8_Witness ==
  /\ resp = Response("message_delete_post", <<Redirect("/")>>)
  /\ nextMsgId = 3
  /\ Cardinality(messages) = 1

CorrectLogin(c, username, password) ==
  /\ login_post(c, username, password)
  /\ \E u \in users :
       u.username = username /\ Compare(password, u.password) /\ session'[c] = u.id

\* C9: a message leaves the store only in a delete POST of a caller that has a
\* session identity; a caller gets one only by a login with a user's name and
\* password and loses it at logout, a failed login giving none; a delete POST
\* without a session identity redirects to /login and leaves the store alone.
C9_DeleteNeedsSession ==
  [][/\ (messages \ messages' # {})
          => \E c \in Clients, id \in MessageIds :
               message_delete_post(c, id) /\ session[c] # NoUser
     /\ \A c \in Clients, id \in MessageIds :
          (message_delete_post(c, id) /\ session[c] = NoUser)
          => (messages' = messages /\ resp'.out = <<Redirect("/login")>>)
     /\ \A c \in Clients :
          (session[c] = NoUser /\ session'[c] # NoUser)
          => \E u \in LoginNames, p \in LoginPasswords : CorrectLogin(c, u, p)
     /\ \A c \in Clients : logout(c) => session'[c] = NoUser
  ]_vars

C9_Witness ==
  /\ messages # {}
  /\ \A c \in Clients : session[c] = NoUser
  /\ resp = Response("message_delete_post", <<Redirect("/login")>>)

\* C10: every handler invocation sends exactly one outcome: one render, one
\* redirect or one forward to the error path.
C10_OneOutcome == resp.handler # "none" => Len(resp.out) = 1

====
